---- MODULE Spec2Model ----
(***************************************************************************)
(* Model of package primitive (goose-lang/primitive): WaitTimeout on a     *)
(* sync.Cond, together with Assert and Assume.                             *)
(*                                                                         *)
(* Contexts are goroutines that use cond.L and cond: they Lock, Unlock,    *)
(* Signal, Broadcast and call WaitTimeout.  Every WaitTimeout call spawns  *)
(* one helper goroutine, which runs cond.Wait(); cond.L.Unlock();          *)
(* close(done).  sync.Mutex has no owner: any goroutine may Unlock it, and *)
(* an Unlock of an unlocked mutex is a fatal runtime error.  sync.Cond     *)
(* keeps its waiters in ticket (FIFO) order; Signal wakes the oldest one.  *)
(***************************************************************************)
EXTENDS Integers, Sequences, FiniteSets

NumCtx == 2
MaxCalls == 2
MaxTimeout == 1

Ctx == 1..NumCtx
Helpers == 1..MaxCalls

VARIABLES
    locked,       \* cond.L: TRUE when the mutex is locked
    notifyQ,      \* cond's notify list: registered helpers, oldest first
    pc,           \* position of each context
    hpc,          \* position of each helper goroutine
    done,         \* done[h]: the done channel of helper h has been closed
    cur,          \* cur[c]: helper of c's latest WaitTimeout call (0: none)
    timerLeft,    \* ms until c's time.After channel is ready (-1: none)
    retVia,       \* select branch by which c's latest finished call returned
    nCalls,       \* number of WaitTimeout calls made so far
    fatal,        \* "sync: unlock of unlocked mutex" was raised
    panicked,     \* Assert or Assume panicked
    lastCheck     \* argument of the latest Assert/Assume call

vars == <<locked, notifyQ, pc, hpc, done, cur, timerLeft, retVia, nCalls,
          fatal, panicked, lastCheck>>

progVars == <<locked, notifyQ, pc, hpc, done, cur, timerLeft, retVia, nCalls,
              fatal>>

InQ(h) == \E i \in 1..Len(notifyQ) : notifyQ[i] = h

InCall(c) == pc[c] \in {"select", "timedout", "donebr"}

Init ==
    /\ locked = FALSE
    /\ notifyQ = <<>>
    /\ pc = [c \in Ctx |-> "idle"]
    /\ hpc = [h \in Helpers |-> "unborn"]
    /\ done = [h \in Helpers |-> FALSE]
    /\ cur = [c \in Ctx |-> 0]
    /\ timerLeft = [c \in Ctx |-> -1]
    /\ retVia = [c \in Ctx |-> "none"]
    /\ nCalls = 0
    /\ fatal = FALSE
    /\ panicked = FALSE
    /\ lastCheck = "none"

(* A panic or a fatal runtime error ends the process: no goroutine steps. *)
Running == ~panicked /\ ~fatal

(* sync.Mutex.Unlock: clears the locked bit; fatal if it was not set. *)
MutexUnlock ==
    /\ locked' = FALSE
    /\ fatal' = (fatal \/ ~locked)

(* ---------------- users of cond.L and cond ---------------- *)

Lock(c) ==
    /\ Running
    /\ pc[c] = "idle"
    /\ ~locked
    /\ locked' = TRUE
    /\ pc' = [pc EXCEPT ![c] = "held"]
    /\ UNCHANGED <<notifyQ, hpc, done, cur, timerLeft, retVia, nCalls, fatal,
                   panicked, lastCheck>>

Unlock(c) ==
    /\ Running
    /\ pc[c] = "held"
    /\ MutexUnlock
    /\ pc' = [pc EXCEPT ![c] = "idle"]
    /\ UNCHANGED <<notifyQ, hpc, done, cur, timerLeft, retVia, nCalls,
                   panicked, lastCheck>>

(* cond.Signal(): wakes the oldest registered waiter, if any. *)
Signal(c) ==
    /\ Running
    /\ pc[c] = "held"
    /\ notifyQ # <<>>
    /\ notifyQ' = Tail(notifyQ)
    /\ UNCHANGED <<locked, pc, hpc, done, cur, timerLeft, retVia, nCalls,
                   fatal, panicked, lastCheck>>

(* cond.Broadcast(): wakes every registered waiter. *)
Broadcast(c) ==
    /\ Running
    /\ pc[c] = "held"
    /\ notifyQ # <<>>
    /\ notifyQ' = <<>>
    /\ UNCHANGED <<locked, pc, hpc, done, cur, timerLeft, retVia, nCalls,
                   fatal, panicked, lastCheck>>

(* ---------------- WaitTimeout, caller side ---------------- *)

(* Faulty variant: the caller releases cond.L itself before the helper  *)
(* has registered.                                                     *)
CallWaitTimeout_Unlocking(c, t) ==
    /\ Running
    /\ pc[c] = "held"
    /\ nCalls < MaxCalls
    /\ nCalls' = nCalls + 1
    /\ hpc' = [hpc EXCEPT ![nCalls + 1] = "start"]
    /\ cur' = [cur EXCEPT ![c] = nCalls + 1]
    /\ timerLeft' = [timerLeft EXCEPT ![c] = t]
    /\ pc' = [pc EXCEPT ![c] = "select"]
    /\ MutexUnlock
    /\ UNCHANGED <<notifyQ, done, retVia, panicked, lastCheck>>

(* done := make(chan struct{}); go func(){...}(); time.After(timeoutMs);   *)
(* the caller then blocks in select.                                       *)
(* The caller keeps cond.L locked while it spawns the helper.             *)
CallWaitTimeout(c, t) ==
    /\ Running
    /\ pc[c] = "held"
    /\ nCalls < MaxCalls
    /\ nCalls' = nCalls + 1
    /\ hpc' = [hpc EXCEPT ![nCalls + 1] = "start"]
    /\ cur' = [cur EXCEPT ![c] = nCalls + 1]
    /\ timerLeft' = [timerLeft EXCEPT ![c] = t]
    /\ pc' = [pc EXCEPT ![c] = "select"]
    /\ UNCHANGED <<locked, notifyQ, done, retVia, fatal, panicked, lastCheck>>

(* One millisecond passes for every armed timer that has not fired. *)
Tick ==
    /\ Running
    /\ \E c \in Ctx : timerLeft[c] > 0
    /\ timerLeft' = [c \in Ctx |->
                        IF timerLeft[c] > 0 THEN timerLeft[c] - 1
                        ELSE timerLeft[c]]
    /\ UNCHANGED <<locked, notifyQ, pc, hpc, done, cur, retVia, nCalls, fatal,
                   panicked, lastCheck>>

(* case <-time.After(...): *)
SelectTimer(c) ==
    /\ Running
    /\ pc[c] = "select"
    /\ timerLeft[c] = 0
    /\ pc' = [pc EXCEPT ![c] = "timedout"]
    /\ timerLeft' = [timerLeft EXCEPT ![c] = -1]
    /\ UNCHANGED <<locked, notifyQ, hpc, done, cur, retVia, nCalls,
                   fatal, panicked, lastCheck>>

(* case <-done: *)
SelectDone(c) ==
    /\ Running
    /\ pc[c] = "select"
    /\ done[cur[c]]
    /\ pc' = [pc EXCEPT ![c] = "donebr"]
    /\ timerLeft' = [timerLeft EXCEPT ![c] = -1]
    /\ UNCHANGED <<locked, notifyQ, hpc, done, cur, retVia, nCalls,
                   fatal, panicked, lastCheck>>

(* Faulty variant: the timer branch returns without cond.L.Lock(). *)
LockAfterTimer_NoLock(c) ==
    /\ Running
    /\ pc[c] = "timedout"
    /\ pc' = [pc EXCEPT ![c] = "held"]
    /\ retVia' = [retVia EXCEPT ![c] = "timer"]
    /\ UNCHANGED <<locked, notifyQ, hpc, done, cur, timerLeft, nCalls, fatal,
                   panicked, lastCheck>>

(* timer branch: cond.L.Lock(); return *)
LockAfterTimer(c) ==
    /\ Running
    /\ pc[c] = "timedout"
    /\ ~locked
    /\ locked' = TRUE
    /\ pc' = [pc EXCEPT ![c] = "held"]
    /\ retVia' = [retVia EXCEPT ![c] = "timer"]
    /\ UNCHANGED <<notifyQ, hpc, done, cur, timerLeft, nCalls, fatal,
                   panicked, lastCheck>>

(* Faulty variant: the done branch returns without cond.L.Lock(). *)
LockAfterDone_NoLock(c) ==
    /\ Running
    /\ pc[c] = "donebr"
    /\ pc' = [pc EXCEPT ![c] = "held"]
    /\ retVia' = [retVia EXCEPT ![c] = "done"]
    /\ UNCHANGED <<locked, notifyQ, hpc, done, cur, timerLeft, nCalls, fatal,
                   panicked, lastCheck>>

(* done branch: cond.L.Lock(); return *)
LockAfterDone(c) ==
    /\ Running
    /\ pc[c] = "donebr"
    /\ ~locked
    /\ locked' = TRUE
    /\ pc' = [pc EXCEPT ![c] = "held"]
    /\ retVia' = [retVia EXCEPT ![c] = "done"]
    /\ UNCHANGED <<notifyQ, hpc, done, cur, timerLeft, nCalls, fatal,
                   panicked, lastCheck>>

(* ---------------- WaitTimeout, helper goroutine ---------------- *)

(* cond.Wait(), first step: register on the notify list. *)
HelperAdd(h) ==
    /\ Running
    /\ hpc[h] = "start"
    /\ notifyQ' = Append(notifyQ, h)
    /\ hpc' = [hpc EXCEPT ![h] = "added"]
    /\ UNCHANGED <<locked, pc, done, cur, timerLeft, retVia, nCalls, fatal,
                   panicked, lastCheck>>

(* Faulty variant: the wait parks without releasing cond.L. *)
HelperWaitUnlock_Keep(h) ==
    /\ Running
    /\ hpc[h] = "added"
    /\ hpc' = [hpc EXCEPT ![h] = "parked"]
    /\ UNCHANGED <<locked, notifyQ, pc, done, cur, timerLeft, retVia, nCalls,
                   fatal, panicked, lastCheck>>

(* cond.Wait(), second step: c.L.Unlock(), then park. *)
HelperWaitUnlock(h) ==
    /\ Running
    /\ hpc[h] = "added"
    /\ MutexUnlock
    /\ hpc' = [hpc EXCEPT ![h] = "parked"]
    /\ UNCHANGED <<notifyQ, pc, done, cur, timerLeft, retVia, nCalls,
                   panicked, lastCheck>>

(* Faulty variant: the wait returns without re-acquiring cond.L. *)
HelperWaitLock_NoLock(h) ==
    /\ Running
    /\ hpc[h] = "parked"
    /\ ~InQ(h)
    /\ hpc' = [hpc EXCEPT ![h] = "relocked"]
    /\ UNCHANGED <<locked, notifyQ, pc, done, cur, timerLeft, retVia, nCalls,
                   fatal, panicked, lastCheck>>

(* cond.Wait(), last step: once notified, c.L.Lock(). *)
HelperWaitLock(h) ==
    /\ Running
    /\ hpc[h] = "parked"
    /\ ~InQ(h)
    /\ ~locked
    /\ locked' = TRUE
    /\ hpc' = [hpc EXCEPT ![h] = "relocked"]
    /\ UNCHANGED <<notifyQ, pc, done, cur, timerLeft, retVia, nCalls, fatal,
                   panicked, lastCheck>>

(* cond.L.Unlock() *)
HelperUnlock(h) ==
    /\ Running
    /\ hpc[h] = "relocked"
    /\ MutexUnlock
    /\ hpc' = [hpc EXCEPT ![h] = "unlocked"]
    /\ UNCHANGED <<notifyQ, pc, done, cur, timerLeft, retVia, nCalls,
                   panicked, lastCheck>>

(* Faulty variant: a send on the unbuffered channel, which needs the *)
(* caller to be receiving in its select.                             *)
HelperClose_Send(h) ==
    /\ Running
    /\ hpc[h] = "unlocked"
    /\ \E c \in Ctx : cur[c] = h /\ pc[c] = "select"
    /\ done' = [done EXCEPT ![h] = TRUE]
    /\ hpc' = [hpc EXCEPT ![h] = "exited"]
    /\ UNCHANGED <<locked, notifyQ, pc, cur, timerLeft, retVia, nCalls, fatal,
                   panicked, lastCheck>>

(* close(done): never blocks; the goroutine then ends. *)
HelperClose(h) ==
    /\ Running
    /\ hpc[h] = "unlocked"
    /\ done' = [done EXCEPT ![h] = TRUE]
    /\ hpc' = [hpc EXCEPT ![h] = "exited"]
    /\ UNCHANGED <<locked, notifyQ, pc, cur, timerLeft, retVia, nCalls, fatal,
                   panicked, lastCheck>>

(* ---------------- Assert and Assume ---------------- *)

(* Faulty variant: Assume returns although its argument is false. *)
AssumeCall_Lenient(c, b) ==
    /\ Running
    /\ pc[c] \in {"idle", "held"}
    /\ lastCheck' = IF b THEN "true" ELSE "false"
    /\ UNCHANGED <<panicked, progVars>>

(* Assume(b): panics iff b is false; touches no other state. *)
AssumeCall(c, b) ==
    /\ Running
    /\ pc[c] \in {"idle", "held"}
    /\ lastCheck' = IF b THEN "true" ELSE "false"
    /\ panicked' = ~b
    /\ UNCHANGED progVars

(* Assert(b): panics iff b is false; touches no other state. *)
AssertCall(c, b) ==
    /\ Running
    /\ pc[c] \in {"idle", "held"}
    /\ lastCheck' = IF b THEN "true" ELSE "false"
    /\ panicked' = ~b
    /\ UNCHANGED progVars

(* ---------------- specification ---------------- *)

Next ==
    \/ \E c \in Ctx : Lock(c)
    \/ \E c \in Ctx : Unlock(c)
    \/ \E c \in Ctx : Signal(c)
    \/ \E c \in Ctx : Broadcast(c)
    \/ \E c \in Ctx : \E t \in 0..MaxTimeout : CallWaitTimeout(c, t)
    \/ Tick
    \/ \E c \in Ctx : SelectTimer(c)
    \/ \E c \in Ctx : SelectDone(c)
    \/ \E c \in Ctx : LockAfterTimer(c)
    \/ \E c \in Ctx : LockAfterDone(c)
    \/ \E h \in Helpers : HelperAdd(h)
    \/ \E h \in Helpers : HelperWaitUnlock(h)
    \/ \E h \in Helpers : HelperWaitLock(h)
    \/ \E h \in Helpers : HelperUnlock(h)
    \/ \E h \in Helpers : HelperClose(h)

Spec == Init /\ [][Next]_vars

(* The same program with calls of Assert and Assume in its contexts. *)
NextChecks ==
    \/ Next
    \/ \E c \in Ctx : \E b \in BOOLEAN : AssertCall(c, b)
    \/ \E c \in Ctx : \E b \in BOOLEAN : AssumeCall(c, b)

SpecChecks == Init /\ [][NextChecks]_vars

(* Some goroutine blocked in cond.L.Lock() inside WaitTimeout, caller or *)
(* helper, gets the mutex.                                              *)
WaiterLocks ==
    \/ \E c \in Ctx : LockAfterTimer(c) \/ LockAfterDone(c)
    \/ \E h \in Helpers : HelperWaitLock(h)

(* The scheduler runs every runnable goroutine, a select with a ready case *)
(* proceeds, a context that holds the lock releases it, and when the mutex *)
(* is free again and again while goroutines of WaitTimeout are blocked in  *)
(* Lock, one of them gets it (sync.Mutex hands the lock to a starving      *)
(* waiter).  Nothing is assumed about the passing of time or about         *)
(* contexts taking the lock, signalling or calling.                        *)
Fairness ==
    /\ \A c \in Ctx : WF_vars(Unlock(c) \/ SelectTimer(c) \/ SelectDone(c))
    /\ \A h \in Helpers :
          WF_vars(HelperAdd(h) \/ HelperWaitUnlock(h) \/ HelperUnlock(h)
                      \/ HelperClose(h))
    /\ SF_vars(WaiterLocks)

FairSpec == Init /\ [][Next]_vars /\ Fairness

(* ---------------- properties ---------------- *)

Owners == {c \in Ctx : pc[c] = "held"}

Returned(c) == ~InCall(c) /\ retVia[c] # "none"

(* Helper h has been notified and has not yet re-acquired the lock. *)
Notified(h) == hpc[h] = "parked" /\ ~InQ(h)

(* c is blocked in select, its helper is registered, its timer has not *)
(* fired, and no other WaitTimeout call is in progress.                *)
SoleWaiter(c) ==
    /\ pc[c] = "select"
    /\ timerLeft[c] > 0
    /\ InQ(cur[c])
    /\ \A x \in Ctx \ {c} : ~InCall(x)

(* C1: WaitTimeout returns, through the timer branch and through the done *)
(* branch alike, with cond.L locked, and while the caller stays in its     *)
(* critical section no step of any other goroutine changes cond.L.         *)
C1_LockHeldOnReturn ==
    [][\A c \in Ctx :
          /\ (InCall(c) /\ pc'[c] = "held") => locked'
          /\ (pc[c] = "held" /\ pc'[c] = "held") => (locked /\ locked')]_vars

(* c returned by timeout and holds the lock while the helper of its own *)
(* call has been notified and waits for the lock.                       *)
C1_Witness ==
    \E c \in Ctx :
        /\ pc[c] = "held"
        /\ retVia[c] = "timer"
        /\ Notified(cur[c])
        /\ \E d \in Ctx \ {c} : retVia[d] = "done"

(* C2: once A's call has returned by timeout and B is the waiter still  *)
(* blocked with its timer not fired, a Signal wakes B's helper.         *)
C2_SignalWakesOtherWaiter ==
    [][\A s \in Ctx : \A b \in Ctx :
          ( /\ Signal(s)
            /\ SoleWaiter(b)
            /\ \E a \in Ctx \ {b} : Returned(a) /\ retVia[a] = "timer" )
          => Head(notifyQ) = cur[b]]_vars

(* C3: no Unlock of cond.L is ever executed on an unlocked mutex. *)
C3_NoDoubleRelease == ~fatal

(* A call timed out, its caller left the critical section, and the helper *)
(* was woken later and ran to its end: all three kinds of Unlock happened. *)
C3_Witness ==
    \E c \in Ctx :
        /\ retVia[c] = "timer"
        /\ pc[c] = "idle"
        /\ hpc[cur[c]] = "exited"
        /\ ~fatal

(* C4: at most one context owns cond.L at any time. *)
C4_MutualExclusion == Cardinality(Owners) <= 1

(* Both contexts have returned from WaitTimeout, one by timeout and one *)
(* by signal, and one of them owns the lock.                            *)
C4_Witness ==
    \E a \in Ctx : \E b \in Ctx \ {a} :
        /\ retVia[a] = "timer" /\ pc[a] = "held"
        /\ retVia[b] = "done" /\ pc[b] = "idle"

(* The timer of c's call has fired, or c has left the select, and the *)
(* call has not returned yet.                                         *)
ReturnPending(c) ==
    \/ pc[c] = "select" /\ timerLeft[c] = 0
    \/ pc[c] \in {"timedout", "donebr"}

(* C5: no call stays in WaitTimeout forever once its timer has fired: it *)
(* returns (the only way out of ReturnPending), unless the process died. *)
C5_TimedOutCallReturns ==
    \A c \in Ctx : []<>(~ReturnPending(c) \/ ~Running)

(* The timer fired and the caller took the timer branch before the helper *)
(* of the only call so far has run at all: the caller blocks in Lock on   *)
(* the lock it still holds.                                               *)
C5_Witness ==
    \E c \in Ctx :
        /\ nCalls = 1
        /\ pc[c] = "timedout"
        /\ hpc[cur[c]] = "start"
        /\ locked

(* C6: a Signal or Broadcast issued while c is the only call in progress, *)
(* with its helper registered and its timer not fired, wakes c's helper.  *)
C6_SignalBeforeTimeoutWakesCall ==
    [][\A s \in Ctx : \A c \in Ctx :
          ((Signal(s) \/ Broadcast(s)) /\ SoleWaiter(c))
          => ~(\E i \in 1..Len(notifyQ') : notifyQ'[i] = cur[c])]_vars

(* C7: when c's previous call returned by timeout, a Signal during c's  *)
(* next call, before its timer fires, wakes the helper of that call.    *)
C7_SecondCallLikeFirst ==
    [][\A s \in Ctx : \A c \in Ctx :
          (Signal(s) /\ SoleWaiter(c) /\ retVia[c] = "timer")
          => Head(notifyQ) = cur[c]]_vars

(* Helper h has been notified and has not yet terminated. *)
WokenNotExited(h) ==
    \/ Notified(h)
    \/ hpc[h] \in {"relocked", "unlocked"}
    \/ hpc[h] = "exited" /\ ~done[h]

(* C8: no helper stays forever between its notification and its end: it *)
(* re-acquires the lock, releases it, closes done and terminates (the   *)
(* only way out of WokenNotExited), unless the process died.            *)
C8_NotifiedHelperTerminates ==
    \A h \in Helpers : []<>(~WokenNotExited(h) \/ ~Running)

(* The helper of a call that returned by timeout has terminated. *)
C8_Witness ==
    \E c \in Ctx :
        /\ Returned(c)
        /\ retVia[c] = "timer"
        /\ hpc[cur[c]] = "exited"
        /\ done[cur[c]]

(* C9: a step of Assert or Assume changes nothing else, panics exactly *)
(* when its argument is false, and after a panic no step is taken.     *)
C9_AssertAssume ==
    [][/\ ~panicked
       /\ (lastCheck' # lastCheck \/ panicked') =>
              /\ progVars' = progVars
              /\ panicked' <=> (lastCheck' = "false")]_vars

(* A check with a false argument panicked in the middle of a call. *)
C9_Witness ==
    /\ panicked
    /\ lastCheck = "false"
    /\ \E c \in Ctx : InCall(c)

(* C10: while the helper of a call has not yet registered and released *)
(* the lock in cond.Wait, cond.L is locked and no context is in its    *)
(* critical section, so none can Signal or Broadcast.                  *)
C10_NoLostWakeup ==
    \A h \in Helpers :
        hpc[h] \in {"start", "added"} => (locked /\ Owners = {})

(* The timer fired, the caller is blocked in Lock, another context waits *)
(* for the lock, and the helper has registered but not yet unlocked.     *)
C10_Witness ==
    \E c \in Ctx :
        /\ pc[c] = "timedout"
        /\ hpc[cur[c]] = "added"
        /\ InQ(cur[c])
        /\ locked

====
